---- MODULE Spec2Model ----
(***************************************************************************)
(* Price-token templating engine of src/src/lib/priceTokens.ts.            *)
(*                                                                         *)
(* Text is a sequence of characters (one-character strings; "EN_DASH" and  *)
(* "INFINITY" stand for U+2013 and U+221E).  A JavaScript number is a      *)
(* record [t, s, n, d]: t = "fin" is the rational s*n/d in lowest terms    *)
(* (s = -1, n = 0 is negative zero), t = "inf" is s*Infinity, t = "nan" is *)
(* NaN, t = "undef" is the value undefined and t = "absent" a property     *)
(* that is not there.  Arithmetic on finite values is exact; on the asks    *)
(* and configs drawn below the exact results are those of IEEE doubles.    *)
(***************************************************************************)
EXTENDS Integers, Sequences, FiniteSets, TLC

VARIABLES op, kind, text, quote, config, result, found, tokens, matches,
          locals, lastIndex, entryIndex,
          mobileMenuOpen, mobileNavRendered, clicks

vars == <<op, kind, text, quote, config, result, found, tokens, matches,
          locals, lastIndex, entryIndex,
          mobileMenuOpen, mobileNavRendered, clicks>>

\* the Header component: its state, whether its last render put the mobile
\* navigation on the page, and the clicks it has handled so far
headerVars == <<mobileMenuOpen, mobileNavRendered, clicks>>

\* the price token module
tokenVars == <<op, kind, text, quote, config, result, found, tokens, matches,
               locals, lastIndex, entryIndex>>

(* ------------------------------ bounds --------------------------------- *)

\* finite asks are multiples of 1/AskDen dollars
AskDen == 2
\* the dense range of asks: -2 .. MaxAskTicks ticks of 1/AskDen dollars
MaxAskTicks == 220
\* a text is the concatenation of at most MaxPieces pieces
MaxPieces == 3

(* --------------------------- JavaScript numbers ------------------------ *)

RECURSIVE GCD(_, _)
GCD(a, b) == IF b = 0 THEN a ELSE GCD(b, a % b)

Fin(s, n, d) ==
    LET g == GCD(n, d)
    IN  IF n = 0 THEN [t |-> "fin", s |-> s, n |-> 0, d |-> 1]
                 ELSE [t |-> "fin", s |-> s, n |-> n \div g, d |-> d \div g]

Num(k) == IF k < 0 THEN Fin(-1, -k, 1) ELSE Fin(1, k, 1)
Dec(n, d) == Fin(1, n, d)
NaN == [t |-> "nan", s |-> 1, n |-> 0, d |-> 1]
Inf(s) == [t |-> "inf", s |-> s, n |-> 0, d |-> 1]
Undefined == [t |-> "undef", s |-> 1, n |-> 0, d |-> 1]
Absent == [t |-> "absent", s |-> 1, n |-> 0, d |-> 1]

\* ToNumber: undefined converts to NaN
ToNumber(x) == IF x.t \in {"undef", "absent"} THEN NaN ELSE x

IsZero(x) == x.t = "fin" /\ x.n = 0

\* a * b
MulNum(x, y) ==
    LET a == ToNumber(x)
        b == ToNumber(y)
    IN  IF a.t = "nan" \/ b.t = "nan" THEN NaN
        ELSE IF a.t = "inf" \/ b.t = "inf"
             THEN IF IsZero(a) \/ IsZero(b) THEN NaN ELSE Inf(a.s * b.s)
        ELSE Fin(a.s * b.s, a.n * b.n, a.d * b.d)

\* a / b
DivNum(x, y) ==
    LET a == ToNumber(x)
        b == ToNumber(y)
    IN  IF a.t = "nan" \/ b.t = "nan" THEN NaN
        ELSE IF a.t = "inf"
             THEN IF b.t = "inf" THEN NaN ELSE Inf(a.s * b.s)
        ELSE IF b.t = "inf" THEN Fin(a.s * b.s, 0, 1)
        ELSE IF b.n = 0
             THEN IF a.n = 0 THEN NaN ELSE Inf(a.s * b.s)
        ELSE Fin(a.s * b.s, a.n * b.d, a.d * b.n)

\* a + b
AddNum(x, y) ==
    LET a == ToNumber(x)
        b == ToNumber(y)
    IN  IF a.t = "nan" \/ b.t = "nan" THEN NaN
        ELSE IF a.t = "inf"
             THEN IF b.t = "inf" /\ b.s # a.s THEN NaN ELSE a
        ELSE IF b.t = "inf" THEN b
        ELSE LET v == a.s * a.n * b.d + b.s * b.n * a.d
             IN  IF v = 0
                 THEN Fin(IF a.s = -1 /\ b.s = -1 THEN -1 ELSE 1, 0, 1)
                 ELSE IF v < 0 THEN Fin(-1, -v, a.d * b.d)
                               ELSE Fin(1, v, a.d * b.d)

Neg(x) == LET a == ToNumber(x) IN IF a.t = "nan" THEN NaN ELSE [a EXCEPT !.s = -a.s]

\* a - b
SubNum(x, y) == AddNum(x, Neg(y))

\* a <= b (false when either side is NaN)
LeqNum(x, y) ==
    LET a == ToNumber(x)
        b == ToNumber(y)
    IN  IF a.t = "nan" \/ b.t = "nan" THEN FALSE
        ELSE IF a.t = "inf" THEN a.s = -1 \/ (b.t = "inf" /\ b.s = 1)
        ELSE IF b.t = "inf" THEN b.s = 1
        ELSE a.s * a.n * b.d <= b.s * b.n * a.d

\* rounding that sends a tie to the even neighbour instead of upwards
MathRoundHalfEven(x) ==
    LET a == ToNumber(x)
        q == (2 * a.n + a.d) \div (2 * a.d)
    IN  IF a.t # "fin" THEN a
        ELSE IF a.s = 1
             THEN IF (2 * a.n + a.d) % (2 * a.d) = 0 /\ q % 2 = 1
                  THEN Fin(1, q - 1, 1) ELSE Fin(1, q, 1)
        ELSE IF 2 * a.n <= a.d THEN Fin(-1, 0, 1)
        ELSE Fin(-1, (2 * a.n - a.d + 2 * a.d - 1) \div (2 * a.d), 1)

\* Math.round: the nearest integer, a tie going towards +Infinity; values in
\* [-0.5, -0] give negative zero
MathRound(x) ==
    LET a == ToNumber(x)
    IN  IF a.t # "fin" THEN a
        ELSE IF a.s = 1 THEN Fin(1, (2 * a.n + a.d) \div (2 * a.d), 1)
        ELSE IF 2 * a.n <= a.d THEN Fin(-1, 0, 1)
        ELSE Fin(-1, (2 * a.n - a.d + 2 * a.d - 1) \div (2 * a.d), 1)

(* ------------------------------ formatting ----------------------------- *)

DigitChars == <<"0", "1", "2", "3", "4", "5", "6", "7", "8", "9">>

RECURSIVE Digits(_)
Digits(q) == IF q < 10 THEN <<DigitChars[q + 1]>>
             ELSE Digits(q \div 10) \o <<DigitChars[(q % 10) + 1]>>

\* en-US grouping: a comma before every group of three digits
RECURSIVE Grouped(_)
Grouped(q) ==
    IF q < 1000 THEN Digits(q)
    ELSE Grouped(q \div 1000) \o <<",">>
         \o <<DigitChars[((q \div 100) % 10) + 1],
              DigitChars[((q \div 10) % 10) + 1],
              DigitChars[(q % 10) + 1]>>

\* a formatter that rejects a value that is not finite
CurrencyFormatFiniteOnly(value) ==
    LET a == ToNumber(value)
        sign == IF a.t # "nan" /\ a.s = -1 THEN <<"-">> ELSE <<>>
    IN  IF a.t # "fin" THEN <<"RangeError">>
        ELSE sign \o <<"$">> \o Grouped((2 * a.n + a.d) \div (2 * a.d))

\* Intl.NumberFormat("en-US", {style: "currency", currency: "USD",
\* minimumFractionDigits: 0, maximumFractionDigits: 0}).format(value)
CurrencyFormat(value) ==
    LET a == ToNumber(value)
        sign == IF a.t # "nan" /\ a.s = -1 THEN <<"-">> ELSE <<>>
    IN  IF a.t = "nan" THEN <<"$", "N", "a", "N">>
        ELSE IF a.t = "inf" THEN sign \o <<"$", "INFINITY">>
        ELSE sign \o <<"$">> \o Grouped((2 * a.n + a.d) \div (2 * a.d))

\* the string left as it is, no occurrence removed
RemoveNone(s, ch) == s

\* String.prototype.replace(ch, ""): the first occurrence of ch removed
RECURSIVE RemoveFirst(_, _)
RemoveFirst(s, ch) ==
    IF s = <<>> THEN <<>>
    ELSE IF Head(s) = ch THEN Tail(s)
    ELSE <<Head(s)>> \o RemoveFirst(Tail(s), ch)

\* Math.floor
MathFloor(x) ==
    LET a == ToNumber(x)
    IN  IF a.t # "fin" THEN a
        ELSE IF a.s = 1 THEN Fin(1, a.n \div a.d, 1)
        ELSE Fin(-1, (a.n + a.d - 1) \div a.d, 1)

\* roundToNearest with Math.floor in place of Math.round
RoundToNearestFloor(value, increment) ==
    MulNum(MathFloor(DivNum(value, increment)), increment)

\* roundToNearest with its arguments taken in the other order
RoundToNearestSwapped(value, increment) ==
    MulNum(MathRound(DivNum(increment, value)), value)

\* roundToNearest(value, increment)
RoundToNearest(value, increment) ==
    MulNum(MathRound(DivNum(value, increment)), increment)

\* formatPrice with the prefix argument ignored, always the default "~"
FormatPriceDefaultPrefix(value, prefix) == <<"~">> \o CurrencyFormat(value)

\* formatPrice with the template literal's first "$" left out: `{prefix}${formatted}`
FormatPriceLiteralBraces(value, prefix) ==
    <<"{", "p", "r", "e", "f", "i", "x", "}">> \o CurrencyFormat(value)

\* formatPrice(value, prefix)
FormatPrice(value, prefix) == prefix \o CurrencyFormat(value)

(* ------------------------------- resolver ------------------------------ *)

DEFAULT_CONFIG == [premiumBandPercent |-> Num(5), roundingIncrement |-> Num(100)]

\* { ...config, ...DEFAULT_CONFIG }: the spread the other way round, where the
\* defaults override what config has
MergeConfigDefaultsLast(cfg) ==
    [f \in {"premiumBandPercent", "roundingIncrement"} |-> DEFAULT_CONFIG[f]]

\* { ...DEFAULT_CONFIG, ...config }: a property config has overrides the default
MergeConfig(cfg) ==
    [f \in {"premiumBandPercent", "roundingIncrement"} |->
        IF cfg[f].t = "absent" THEN DEFAULT_CONFIG[f] ELSE cfg[f]]

PriceTokenType ==
    {"CAPITAL_REQUIREMENT", "CAPITAL_REQUIREMENT_RANGE", "CAPITAL_REQUIREMENT_PLUS",
     "LIQUIDITY_THRESHOLD", "BAR_PRICE", "SPOT_PRICE", "ONE_OZ_BAR_RANGE",
     "HUNDRED_OZ_BAR_RANGE"}

FallbackPhrase ==
    <<"c", "u", "r", "r", "e", "n", "t", " ", "m", "a", "r", "k", "e", "t", " ",
      "p", "r", "i", "c", "e">>

Tilde == <<"~">>

\* NoPriceData with the comparison strict: "ask < 0"
NoPriceDataStrict(priceData) ==
    ~priceData.present \/ (LeqNum(priceData.ask, Num(0)) /\ ~IsZero(ToNumber(priceData.ask)))

\* !priceData || priceData.ask <= 0
NoPriceData(priceData) ==
    ~priceData.present \/ LeqNum(priceData.ask, Num(0))

\* the spot price taken as askPrice / 1000, the 1% bar premium not divided out
EstimatedSpotNoPremium(askPrice) == DivNum(askPrice, Num(1000))

\* askPrice / 1000 / 1.01
EstimatedSpotPerOz(askPrice) == DivNum(DivNum(askPrice, Num(1000)), Dec(101, 100))

\* RangeLow with the configured increment used for the retail ranges too, in
\* place of their fixed 1 and 100
RangeLowConfigIncrement(tokenType, askPrice, premiumBandPercent, roundingIncrement) ==
    CASE tokenType = "CAPITAL_REQUIREMENT_RANGE" ->
           RoundToNearest(
               MulNum(askPrice, SubNum(Num(1), DivNum(premiumBandPercent, Num(100)))),
               roundingIncrement)
      [] tokenType = "ONE_OZ_BAR_RANGE" ->
           RoundToNearest(MulNum(EstimatedSpotPerOz(askPrice), Dec(110, 100)),
                          roundingIncrement)
      [] tokenType = "HUNDRED_OZ_BAR_RANGE" ->
           RoundToNearest(
               MulNum(MulNum(EstimatedSpotPerOz(askPrice), Num(100)), Dec(102, 100)),
               roundingIncrement)
      [] OTHER -> Absent

\* the lowBound / lowPrice of the three range tokens
RangeLow(tokenType, askPrice, premiumBandPercent, roundingIncrement) ==
    CASE tokenType = "CAPITAL_REQUIREMENT_RANGE" ->
           RoundToNearest(
               MulNum(askPrice, SubNum(Num(1), DivNum(premiumBandPercent, Num(100)))),
               roundingIncrement)
      [] tokenType = "ONE_OZ_BAR_RANGE" ->
           RoundToNearest(MulNum(EstimatedSpotPerOz(askPrice), Dec(110, 100)), Num(1))
      [] tokenType = "HUNDRED_OZ_BAR_RANGE" ->
           RoundToNearest(
               MulNum(MulNum(EstimatedSpotPerOz(askPrice), Num(100)), Dec(102, 100)),
               Num(100))
      [] OTHER -> Absent

\* RangeHigh with the 1 oz premium factor mistyped, 1.03 for 1.33
RangeHighMistyped(tokenType, askPrice, premiumBandPercent, roundingIncrement) ==
    CASE tokenType = "CAPITAL_REQUIREMENT_RANGE" ->
           RoundToNearest(
               MulNum(askPrice, AddNum(Num(1), DivNum(premiumBandPercent, Num(100)))),
               roundingIncrement)
      [] tokenType = "ONE_OZ_BAR_RANGE" ->
           RoundToNearest(MulNum(EstimatedSpotPerOz(askPrice), Dec(103, 100)), Num(1))
      [] tokenType = "HUNDRED_OZ_BAR_RANGE" ->
           RoundToNearest(
               MulNum(MulNum(EstimatedSpotPerOz(askPrice), Num(100)), Dec(104, 100)),
               Num(100))
      [] OTHER -> Absent

\* the highBound / highPrice of the three range tokens
RangeHigh(tokenType, askPrice, premiumBandPercent, roundingIncrement) ==
    CASE tokenType = "CAPITAL_REQUIREMENT_RANGE" ->
           RoundToNearest(
               MulNum(askPrice, AddNum(Num(1), DivNum(premiumBandPercent, Num(100)))),
               roundingIncrement)
      [] tokenType = "ONE_OZ_BAR_RANGE" ->
           RoundToNearest(MulNum(EstimatedSpotPerOz(askPrice), Dec(133, 100)), Num(1))
      [] tokenType = "HUNDRED_OZ_BAR_RANGE" ->
           RoundToNearest(
               MulNum(MulNum(EstimatedSpotPerOz(askPrice), Num(100)), Dec(104, 100)),
               Num(100))
      [] OTHER -> Absent

\* a default branch that returns the empty string
DefaultCaseEmpty == <<>>

\* default: return "current market price"
DefaultCase == FallbackPhrase

\* the switch of resolveToken, reached with price data available
ResolveSwitch(tokenType, roundedAsk, estimatedSpotPerOz, lowBound, highBound) ==
    CASE tokenType = "CAPITAL_REQUIREMENT" -> FormatPrice(roundedAsk, Tilde)
      [] tokenType = "CAPITAL_REQUIREMENT_RANGE" ->
           FormatPrice(lowBound, Tilde) \o <<"EN_DASH">>
           \o RemoveFirst(FormatPrice(highBound, Tilde), "~")
      [] tokenType \in {"CAPITAL_REQUIREMENT_PLUS", "LIQUIDITY_THRESHOLD"} ->
           FormatPrice(roundedAsk, Tilde) \o <<"+">>
      [] tokenType = "BAR_PRICE" -> FormatPrice(roundedAsk, <<>>)
      [] tokenType = "SPOT_PRICE" ->
           FormatPrice(RoundToNearest(estimatedSpotPerOz, Num(1)), Tilde)
      [] tokenType \in {"ONE_OZ_BAR_RANGE", "HUNDRED_OZ_BAR_RANGE"} ->
           FormatPrice(lowBound, <<>>) \o <<"EN_DASH">>
           \o RemoveFirst(FormatPrice(highBound, <<>>), "$")
      [] OTHER -> DefaultCase

NoLocals == [roundedAsk |-> Absent, lowBound |-> Absent, highBound |-> Absent]

\* resolveToken(tokenType, priceData, config): the string returned (out) and the
\* locals computed on the way
ResolveToken(tokenType, priceData, cfg) ==
    LET merged == MergeConfig(cfg)
        premiumBandPercent == merged.premiumBandPercent
        roundingIncrement == merged.roundingIncrement
    IN  IF NoPriceData(priceData)
        THEN [out |-> FallbackPhrase, locals |-> NoLocals]
        ELSE LET askPrice == priceData.ask
                 roundedAsk == RoundToNearest(askPrice, roundingIncrement)
                 estimatedSpotPerOz == EstimatedSpotPerOz(askPrice)
                 lowBound == RangeLow(tokenType, askPrice, premiumBandPercent,
                                      roundingIncrement)
                 highBound == RangeHigh(tokenType, askPrice, premiumBandPercent,
                                        roundingIncrement)
             IN  [out |-> ResolveSwitch(tokenType, roundedAsk, estimatedSpotPerOz,
                                        lowBound, highBound),
                  locals |-> [roundedAsk |-> roundedAsk, lowBound |-> lowBound,
                              highBound |-> highBound]]

(* ------------------------------- scanner ------------------------------- *)

\* the alternatives of TOKEN_PATTERN's group, in the order the pattern lists them
TokenAlternatives ==
    <<"CAPITAL_REQUIREMENT", "CAPITAL_REQUIREMENT_RANGE", "CAPITAL_REQUIREMENT_PLUS",
      "LIQUIDITY_THRESHOLD", "BAR_PRICE", "SPOT_PRICE", "ONE_OZ_BAR_RANGE",
      "HUNDRED_OZ_BAR_RANGE">>

\* the characters of each alternative
TokenChars(k) ==
    CASE k = "CAPITAL_REQUIREMENT" ->
           <<"C", "A", "P", "I", "T", "A", "L", "_", "R", "E", "Q", "U", "I",
             "R", "E", "M", "E", "N", "T">>
      [] k = "CAPITAL_REQUIREMENT_RANGE" ->
           <<"C", "A", "P", "I", "T", "A", "L", "_", "R", "E", "Q", "U", "I",
             "R", "E", "M", "E", "N", "T", "_", "R", "A", "N", "G", "E">>
      [] k = "CAPITAL_REQUIREMENT_PLUS" ->
           <<"C", "A", "P", "I", "T", "A", "L", "_", "R", "E", "Q", "U", "I",
             "R", "E", "M", "E", "N", "T", "_", "P", "L", "U", "S">>
      [] k = "LIQUIDITY_THRESHOLD" ->
           <<"L", "I", "Q", "U", "I", "D", "I", "T", "Y", "_", "T", "H", "R",
             "E", "S", "H", "O", "L", "D">>
      [] k = "BAR_PRICE" ->
           <<"B", "A", "R", "_", "P", "R", "I", "C", "E">>
      [] k = "SPOT_PRICE" ->
           <<"S", "P", "O", "T", "_", "P", "R", "I", "C", "E">>
      [] k = "ONE_OZ_BAR_RANGE" ->
           <<"O", "N", "E", "_", "O", "Z", "_", "B", "A", "R", "_", "R", "A",
             "N", "G", "E">>
      [] k = "HUNDRED_OZ_BAR_RANGE" ->
           <<"H", "U", "N", "D", "R", "E", "D", "_", "O", "Z", "_", "B", "A",
             "R", "_", "R", "A", "N", "G", "E">>

OpenBraces == <<"{", "{">>
CloseBraces == <<"}", "}">>

LowerCaseLetters ==
    <<"a", "b", "c", "d", "e", "f", "g", "h", "i", "j", "k", "l", "m", "n", "o",
      "p", "q", "r", "s", "t", "u", "v", "w", "x", "y", "z">>
UpperCaseLetters ==
    <<"A", "B", "C", "D", "E", "F", "G", "H", "I", "J", "K", "L", "M", "N", "O",
      "P", "Q", "R", "S", "T", "U", "V", "W", "X", "Y", "Z">>
ToUpperCase(ch) ==
    IF \E i \in 1..26 : LowerCaseLetters[i] = ch
    THEN UpperCaseLetters[CHOOSE i \in 1..26 : LowerCaseLetters[i] = ch]
    ELSE ch

\* HasAt as the pattern's "i" flag would make it: letter case ignored
HasAtIgnoreCase(s, pos, lit) ==
    /\ pos + Len(lit) <= Len(s)
    /\ \A j \in 1..Len(lit) : ToUpperCase(s[pos + j]) = ToUpperCase(lit[j])

\* the literal lit stands in s at the 0-based position pos
HasAt(s, pos, lit) ==
    /\ pos + Len(lit) <= Len(s)
    /\ \A j \in 1..Len(lit) : s[pos + j] = lit[j]

NoMatch == [matched |-> FALSE, index |-> 0, length |-> 0, group |-> "none"]

\* MatchAlternative without backtracking: the first alternative whose own
\* characters match is kept, whether or not the closing braces follow
RECURSIVE MatchAlternativeCommitted(_, _, _)
MatchAlternativeCommitted(s, pos, a) ==
    IF a > Len(TokenAlternatives) THEN NoMatch
    ELSE LET id == TokenChars(TokenAlternatives[a])
         IN  IF HasAt(s, pos + 2, id)
             THEN IF HasAt(s, pos + 2 + Len(id), CloseBraces)
                  THEN [matched |-> TRUE, index |-> pos, length |-> Len(id) + 4,
                        group |-> TokenAlternatives[a]]
                  ELSE NoMatch
             ELSE MatchAlternativeCommitted(s, pos, a + 1)

\* the group's alternatives from the a-th on, each followed by the rest of the
\* pattern: one that fails, on its own characters or on the closing braces,
\* gives way to the next
RECURSIVE MatchAlternative(_, _, _)
MatchAlternative(s, pos, a) ==
    IF a > Len(TokenAlternatives) THEN NoMatch
    ELSE LET id == TokenChars(TokenAlternatives[a])
         IN  IF HasAt(s, pos + 2, id) /\ HasAt(s, pos + 2 + Len(id), CloseBraces)
             THEN [matched |-> TRUE, index |-> pos, length |-> Len(id) + 4,
                   group |-> TokenAlternatives[a]]
             ELSE MatchAlternative(s, pos, a + 1)

\* TOKEN_PATTERN matched at position pos exactly
MatchAt(s, pos) ==
    IF HasAt(s, pos, OpenBraces) THEN MatchAlternative(s, pos, 1) ELSE NoMatch

\* TOKEN_PATTERN.exec(s) with lastIndex = from: the first position from there on
\* at which the pattern matches
RECURSIVE RegExpExec(_, _)
RegExpExec(s, from) ==
    IF from > Len(s) THEN NoMatch
    ELSE LET m == MatchAt(s, from)
         IN  IF m.matched THEN m ELSE RegExpExec(s, from + 1)

\* lastIndex after a successful exec: the end of the match
EndIndex(m) == m.index + m.length

\* Substitution as replace() treats a replacement string: "$1" is the group,
\* "$&" the match, "$$" a dollar sign
RECURSIVE SubstitutionPattern(_, _)
SubstitutionPattern(value, m) ==
    IF Len(value) < 2 THEN value
    ELSE IF value[1] = "$" /\ value[2] = "1"
         THEN TokenChars(m.group) \o SubstitutionPattern(SubSeq(value, 3, Len(value)), m)
    ELSE IF value[1] = "$" /\ value[2] = "&"
         THEN OpenBraces \o TokenChars(m.group) \o CloseBraces
              \o SubstitutionPattern(SubSeq(value, 3, Len(value)), m)
    ELSE IF value[1] = "$" /\ value[2] = "$"
         THEN <<"$">> \o SubstitutionPattern(SubSeq(value, 3, Len(value)), m)
    ELSE <<value[1]>> \o SubstitutionPattern(Tail(value), m)

\* a replacer that returns the empty string, so the text around a token joins up
SubstitutionEmpty(value, m) == <<>>

\* what replace() puts in place of a match: the callback's return value as it is
Substitution(value, m) == value

\* text.replace(TOKEN_PATTERN, callback) from position from on: the output and
\* the matches handed to the callback
RECURSIVE ReplaceFrom(_, _, _, _)
ReplaceFrom(s, from, priceData, cfg) ==
    LET m == RegExpExec(s, from)
    IN  IF ~m.matched
        THEN [out |-> SubSeq(s, from + 1, Len(s)), matches |-> <<>>]
        ELSE LET rest == ReplaceFrom(s, EndIndex(m), priceData, cfg)
                 value == ResolveToken(m.group, priceData, cfg).out
             IN  [out |-> SubSeq(s, from + 1, m.index) \o Substitution(value, m)
                          \o rest.out,
                  matches |-> <<m>> \o rest.matches]

\* replaceTokens as a loop that replaces the first match and scans its own
\* output again, until nothing matches
RECURSIVE ReplaceTokensRescan(_, _, _)
ReplaceTokensRescan(s, priceData, cfg) ==
    LET m == RegExpExec(s, 0)
    IN  IF ~m.matched THEN [out |-> s, matches |-> <<>>]
        ELSE LET value == ResolveToken(m.group, priceData, cfg).out
                 rest == ReplaceTokensRescan(
                             SubSeq(s, 1, m.index) \o value
                                 \o SubSeq(s, EndIndex(m) + 1, Len(s)),
                             priceData, cfg)
             IN  [out |-> rest.out, matches |-> <<m>> \o rest.matches]

\* replaceTokens(text, priceData, config)
ReplaceTokens(s, priceData, cfg) == ReplaceFrom(s, 0, priceData, cfg)

\* hasTokens without its first statement: test() starts where lastIndex stands
ResetLastIndexOmitted(li) == li

\* TOKEN_PATTERN.lastIndex = 0 in hasTokens
ResetLastIndex(li) == 0

\* hasTokens on a sticky pattern (flag "y"): test() tries the position
\* lastIndex only
HasTokensSticky(s, li) ==
    LET m == MatchAt(s, ResetLastIndex(li))
    IN  [found |-> m.matched, lastIndex |-> IF m.matched THEN EndIndex(m) ELSE 0]

\* hasTokens(text) with TOKEN_PATTERN.lastIndex = li on entry: the value
\* returned and the lastIndex test() leaves (the end of the match, or 0)
HasTokens(s, li) ==
    LET m == RegExpExec(s, ResetLastIndex(li))
    IN  [found |-> m.matched, lastIndex |-> IF m.matched THEN EndIndex(m) ELSE 0]

\* the loop of findTokens: pattern.exec(text) until it returns null
RECURSIVE FindFrom(_, _)
FindFrom(s, from) ==
    LET m == RegExpExec(s, from)
    IN  IF ~m.matched THEN <<>> ELSE <<m.group>> \o FindFrom(s, EndIndex(m))

\* findTokens with a single exec instead of the loop
FindTokensFirstOnly(s) ==
    LET m == RegExpExec(s, 0)
    IN  IF m.matched THEN <<m.group>> ELSE <<>>

\* findTokens(text)
FindTokens(s) == FindFrom(s, 0)

(* ------------------------------- inputs -------------------------------- *)

Token(k) == OpenBraces \o TokenChars(k) \o CloseBraces

AndText == <<" ", "a", "n", "d", " ">>
RangeSuffix == <<"_", "R", "A", "N", "G", "E">>
UnknownIdent == <<"N", "O", "T", "_", "A", "_", "T", "O", "K", "E", "N">>
LowerIdent == <<"b", "a", "r", "_", "p", "r", "i", "c", "e">>

\* the pieces texts are put together from
Pieces ==
    {OpenBraces, CloseBraces, <<"{">>, TokenChars("BAR_PRICE"),
     TokenChars("CAPITAL_REQUIREMENT"), RangeSuffix, Token("SPOT_PRICE")}

RECURSIVE TextsOfPieces(_)
TextsOfPieces(n) ==
    IF n = 0 THEN {<<>>}
    ELSE {p \o t : p \in Pieces, t \in TextsOfPieces(n - 1)}

\* the texts of the scenarios: each token alone, two tokens in one sentence,
\* adjacent tokens, the malformed and nested forms, and text without braces
ScenarioTexts ==
    {Token(k) : k \in PriceTokenType}
    \cup {Token("CAPITAL_REQUIREMENT") \o AndText \o Token("SPOT_PRICE"),
          Token("BAR_PRICE") \o Token("LIQUIDITY_THRESHOLD") \o Token("BAR_PRICE"),
          Token("ONE_OZ_BAR_RANGE") \o <<"$", "1">> \o Token("HUNDRED_OZ_BAR_RANGE"),
          OpenBraces \o UnknownIdent \o CloseBraces,
          OpenBraces \o TokenChars("BAR_PRICE") \o <<"}">>,
          <<"{">> \o TokenChars("BAR_PRICE") \o CloseBraces,
          OpenBraces \o <<" ">> \o TokenChars("BAR_PRICE") \o <<" ">> \o CloseBraces,
          OpenBraces \o LowerIdent \o CloseBraces,
          OpenBraces \o <<"B", "A", "R", "_">> \o Token("BAR_PRICE")
              \o <<"P", "R", "I", "C", "E">> \o CloseBraces,
          <<"{">> \o Token("BAR_PRICE") \o <<"}">>,
          AndText,
          <<"$", "1", " ", "$", "&">>}

Texts == ScenarioTexts \cup UNION {TextsOfPieces(n) : n \in 0..MaxPieces}

Tick(n) == IF n < 0 THEN Fin(-1, -n, AskDen) ELSE Fin(1, n, AskDen)

\* asks of a quote: a dense range around zero and the first increments, the
\* scenario's 30000 and other large ones, and the values that are no price
LandmarkAsks == {Num(1000), Num(29950), Num(30000), Num(1234567)}
FiniteAsks == {Tick(n) : n \in (-2)..MaxAskTicks} \cup LandmarkAsks \cup {Fin(-1, 0, 1)}
OtherAsks == {NaN, Inf(1), Inf(-1), Undefined}

NullQuote == [present |-> FALSE, ask |-> Undefined]
QuoteOf(a) == [present |-> TRUE, ask |-> a]

Quotes == {NullQuote} \cup {QuoteOf(a) : a \in FiniteAsks \cup OtherAsks}

Bands == {Absent, Num(10), Num(150)}
Increments == {Absent, Num(1), Num(25)}

\* configs with a field that is zero or negative
InvalidConfigs ==
    { [premiumBandPercent |-> Num(0), roundingIncrement |-> Absent],
      [premiumBandPercent |-> Fin(-1, 10, 1), roundingIncrement |-> Absent],
      [premiumBandPercent |-> Absent, roundingIncrement |-> Num(0)],
      [premiumBandPercent |-> Absent, roundingIncrement |-> Fin(-1, 100, 1)],
      [premiumBandPercent |-> Num(0), roundingIncrement |-> Num(0)] }

Configs == [premiumBandPercent : Bands, roundingIncrement : Increments] \cup InvalidConfigs

\* a tokenType that is none of the eight, as an untyped caller can pass
UnknownTokenType == "NOT_A_TOKEN"

TokenTypeArgs == PriceTokenType \cup {UnknownTokenType}

EmptyConfig == [premiumBandPercent |-> Absent, roundingIncrement |-> Absent]

\* quotes and configs of the calls that scan a text
ScanQuotes == {NullQuote, QuoteOf(Num(0)), QuoteOf(Num(1000)), QuoteOf(Num(30000))}
ScanConfigs == {EmptyConfig, [premiumBandPercent |-> Num(10), roundingIncrement |-> Num(1)]}

(* ------------------------------- Header -------------------------------- *)

MaxClicks == 6

\* navLinks, by href
NavLinks ==
    {"/", "/live-silver-prices", "/where-to-buy-1000-oz-silver-bars", "/resources",
     "/about"}

ToggleButton == "toggle"

\* a toggle that opens the menu whatever its state, setMobileMenuOpen(true)
ToggledAlwaysOpen(open) == TRUE

\* !mobileMenuOpen, the value the toggle button sets
Toggled(open) == ~open

\* {mobileMenuOpen && (<nav ...>)}: whether a render with this state has the
\* mobile navigation in it
MobileNavigation(open) == open


(* --------------------------- the state machine ------------------------- *)

Init ==
    /\ op = "idle"
    /\ kind = "none"
    /\ text = <<>>
    /\ quote = NullQuote
    /\ config = EmptyConfig
    /\ result = <<>>
    /\ found = FALSE
    /\ tokens = <<>>
    /\ matches = <<>>
    /\ locals = NoLocals
    /\ lastIndex = 0
    /\ entryIndex = 0
    /\ mobileMenuOpen = FALSE
    /\ mobileNavRendered = MobileNavigation(FALSE)
    /\ clicks = <<>>

\* resolveToken(tokenType, priceData, config) on arguments drawn from K, Q, C
ResolveTokenStep(K, Q, C) ==
    /\ \E k \in K, q \in Q, c \in C :
         LET r == ResolveToken(k, q, c)
         IN  /\ op' = "resolveToken"
             /\ kind' = k
             /\ quote' = q
             /\ config' = c
             /\ result' = r.out
             /\ locals' = r.locals
    /\ entryIndex' = lastIndex
    /\ UNCHANGED <<text, found, tokens, matches, lastIndex>>
    /\ UNCHANGED headerVars

\* replaceTokens(text, priceData, config) on arguments drawn from S, Q, C;
\* replace() starts a global pattern at lastIndex 0 and leaves it at 0
ReplaceTokensStep(S, Q, C) ==
    /\ \E s \in S, q \in Q, c \in C :
         LET r == ReplaceTokens(s, q, c)
         IN  /\ op' = "replaceTokens"
             /\ text' = s
             /\ quote' = q
             /\ config' = c
             /\ result' = r.out
             /\ matches' = r.matches
    /\ entryIndex' = lastIndex
    /\ lastIndex' = 0
    /\ UNCHANGED <<kind, found, tokens, locals>>
    /\ UNCHANGED headerVars

\* hasTokens(text) on a text drawn from S: lastIndex is set to 0, and test()
\* leaves it at the end of the match it finds, or at 0
HasTokensStep(S) ==
    /\ \E s \in S :
         LET r == HasTokens(s, lastIndex)
         IN  /\ op' = "hasTokens"
             /\ text' = s
             /\ found' = r.found
             /\ lastIndex' = r.lastIndex
    /\ entryIndex' = lastIndex
    /\ UNCHANGED <<kind, quote, config, result, tokens, matches, locals>>
    /\ UNCHANGED headerVars

\* findTokens(text) on a text drawn from S, on a pattern object of its own
FindTokensStep(S) ==
    /\ \E s \in S :
         /\ op' = "findTokens"
         /\ text' = s
         /\ tokens' = FindTokens(s)
    /\ entryIndex' = lastIndex
    /\ UNCHANGED <<kind, quote, config, result, found, matches, locals, lastIndex>>
    /\ UNCHANGED headerVars

\* a call of resolveToken(tokenType, priceData, config)
ResolveTokenCall ==
    /\ op = "idle"
    /\ ResolveTokenStep(TokenTypeArgs, Quotes, Configs)

\* a call of replaceTokens(text, priceData, config)
ReplaceTokensCall ==
    /\ op = "idle"
    /\ ReplaceTokensStep(Texts, ScanQuotes, ScanConfigs)

\* a call of hasTokens(text)
HasTokensCall ==
    /\ op = "idle"
    /\ HasTokensStep(Texts)

\* a call of findTokens(text)
FindTokensCall ==
    /\ op = "idle"
    /\ FindTokensStep(Texts)

Next ==
    \/ ResolveTokenCall
    \/ ReplaceTokensCall
    \/ HasTokensCall
    \/ FindTokensCall

Spec == Init /\ [][Next]_vars

\* Calls one after another on the one module: each call finds TOKEN_PATTERN as
\* the calls before it left it.
CallTexts ==
    { <<>>, Token("BAR_PRICE"),
      Token("CAPITAL_REQUIREMENT") \o AndText \o Token("SPOT_PRICE"), AndText \o Token("SPOT_PRICE"),
      Token("BAR_PRICE") \o Token("LIQUIDITY_THRESHOLD") \o Token("BAR_PRICE"),
      OpenBraces \o LowerIdent \o CloseBraces, OpenBraces \o TokenChars("BAR_PRICE") }

CallQuotes == {NullQuote, QuoteOf(Num(30000))}

CallConfigs == {EmptyConfig}

ReplaceTokensAgain == ReplaceTokensStep(CallTexts, CallQuotes, CallConfigs)

HasTokensAgain == HasTokensStep(CallTexts)

FindTokensAgain == FindTokensStep(CallTexts)

NextCalls ==
    \/ ReplaceTokensAgain
    \/ HasTokensAgain
    \/ FindTokensAgain

SpecCalls == Init /\ [][NextCalls]_vars

\* The Header component taking clicks. React handles a click to its end, the
\* render that follows the state update included, before the next click.

\* a click on the menu button: setMobileMenuOpen(!mobileMenuOpen)
ToggleClick ==
    /\ Len(clicks) < MaxClicks
    /\ mobileMenuOpen' = Toggled(mobileMenuOpen)
    /\ mobileNavRendered' = MobileNavigation(mobileMenuOpen')
    /\ clicks' = Append(clicks, ToggleButton)
    /\ UNCHANGED tokenVars

\* a click on a link of the mobile navigation, which is there to be clicked
\* only when rendered: setMobileMenuOpen(false)
MobileLinkClick ==
    /\ Len(clicks) < MaxClicks
    /\ mobileNavRendered
    /\ \E href \in NavLinks : clicks' = Append(clicks, href)
    /\ mobileMenuOpen' = FALSE
    /\ mobileNavRendered' = MobileNavigation(mobileMenuOpen')
    /\ UNCHANGED tokenVars

NextHeader ==
    \/ ToggleClick
    \/ MobileLinkClick

SpecHeader == Init /\ [][NextHeader]_vars

(* ------------------- what the claims are stated with ------------------- *)

\* the quote is null, or its ask is a number <= 0
QuoteNullOrNonPositive(q) ==
    \/ ~q.present
    \/ q.ask.t = "fin" /\ (q.ask.n = 0 \/ q.ask.s = -1)
    \/ q.ask.t = "inf" /\ q.ask.s = -1

\* the quote has a finite ask > 0
ValidQuote(q) == q.present /\ q.ask.t = "fin" /\ q.ask.s = 1 /\ q.ask.n > 0

\* both fields of the config, defaults filled in, are finite and > 0
ValidConfig(c) ==
    \A f \in {"premiumBandPercent", "roundingIncrement"} :
        LET v == IF c[f].t = "absent" THEN DEFAULT_CONFIG[f] ELSE c[f]
        IN  v.t = "fin" /\ v.s = 1 /\ v.n > 0

\* a well-formed occurrence of kind k stands in s at the 0-based position pos
OccurrenceAt(s, pos, k) ==
    /\ pos < Len(s)
    /\ s[pos + 1] = "{"
    /\ pos + Len(Token(k)) <= Len(s)
    /\ SubSeq(s, pos + 1, pos + Len(Token(k))) = Token(k)

HasOccurrence(s) ==
    \E pos \in 0..(Len(s) - 1) : \E k \in PriceTokenType : OccurrenceAt(s, pos, k)

\* s from position pos on, each well-formed occurrence replaced by its kind's
\* value in vals and every other character kept
RECURSIVE Substituted(_, _, _)
Substituted(s, pos, vals) ==
    IF pos >= Len(s) THEN <<>>
    ELSE IF \E k \in PriceTokenType : OccurrenceAt(s, pos, k)
    THEN LET k == CHOOSE k \in PriceTokenType : OccurrenceAt(s, pos, k)
         IN  vals[k] \o Substituted(s, pos + Len(Token(k)), vals)
    ELSE <<s[pos + 1]>> \o Substituted(s, pos + 1, vals)

TwoTokenText == Token("CAPITAL_REQUIREMENT") \o AndText \o Token("SPOT_PRICE")

(* -------------------------------- claims ------------------------------- *)

\* C1: with a quote that is null or whose ask is <= 0, resolveToken returns
\* the fallback phrase for every token kind and config, and replaceTokens
\* returns the text with every token occurrence replaced by that phrase and
\* all other characters unchanged.
C1_UnavailableQuoteFallback ==
    QuoteNullOrNonPositive(quote) =>
        /\ op = "resolveToken" => result = FallbackPhrase
        /\ op = "replaceTokens" =>
               result = Substituted(text, 0, [k \in PriceTokenType |-> FallbackPhrase])

C1_Witness ==
    /\ op = "replaceTokens"
    /\ quote = NullQuote
    /\ text = TwoTokenText
    /\ result = FallbackPhrase \o AndText \o FallbackPhrase

\* C2: a quote whose ask is undefined, NaN or infinite is treated as
\* unavailable: resolveToken returns the fallback phrase and computes nothing
\* from the ask.
C2_InvalidAskIsUnavailable ==
    (op = "resolveToken" /\ quote.present /\ quote.ask.t \in {"undef", "nan", "inf"})
        => (result = FallbackPhrase /\ locals = NoLocals)

\* C3: replaceTokens returns the text with each well-formed occurrence {{K}}
\* replaced by resolveToken(K, quote, config) as it is, every other character
\* and the order of the occurrences kept.
C3_ReplaceIsSubstitution ==
    op = "replaceTokens" =>
        result = Substituted(text, 0,
                     [k \in PriceTokenType |-> ResolveToken(k, quote, config).out])

C3_Witness ==
    /\ op = "replaceTokens"
    /\ quote = QuoteOf(Num(1000))
    /\ config = EmptyConfig
    /\ text = Token("BAR_PRICE") \o Token("LIQUIDITY_THRESHOLD") \o Token("BAR_PRICE")
    /\ result = <<"$", "1", ",", "0", "0", "0", "~", "$", "1", ",", "0", "0", "0", "+",
                  "$", "1", ",", "0", "0", "0">>

\* the texts C4 names: an unknown identifier, mismatched braces, whitespace
\* inside the braces, a recognised identifier in lower case
MalformedTexts ==
    {OpenBraces \o UnknownIdent \o CloseBraces,
     OpenBraces \o TokenChars("BAR_PRICE") \o <<"}">>,
     <<"{">> \o TokenChars("BAR_PRICE") \o CloseBraces,
     OpenBraces \o <<" ">> \o TokenChars("BAR_PRICE") \o <<" ">> \o CloseBraces,
     OpenBraces \o LowerIdent \o CloseBraces}

\* C4: a text with no well-formed token occurrence (the malformed forms among
\* them) is returned by replaceTokens unchanged, whatever the quote and config.
C4_NoTokenTextUnchanged ==
    op = "replaceTokens" =>
        /\ ~HasOccurrence(text) => result = text
        /\ text \in MalformedTexts \cup {AndText} => result = text

C4_Witness ==
    /\ op = "replaceTokens"
    /\ ValidQuote(quote)
    /\ text = OpenBraces \o LowerIdent \o CloseBraces
    /\ result = text
    /\ matches = <<>>

\* C5: the scanner matches each of the eight identifiers in full as its own
\* kind: a text that is one token {{K}} is one match of kind K spanning the
\* whole text (CAPITAL_REQUIREMENT_RANGE and CAPITAL_REQUIREMENT_PLUS too) and
\* is replaced by K's resolution; every match is one of the eight kinds.
C5_EachKindMatchedInFull ==
    /\ op = "replaceTokens" =>
          /\ \A i \in 1..Len(matches) : matches[i].group \in PriceTokenType
          /\ \A k \in PriceTokenType :
                text = Token(k) =>
                   /\ matches = <<[matched |-> TRUE, index |-> 0,
                                   length |-> Len(TokenChars(k)) + 4, group |-> k]>>
                   /\ result = ResolveToken(k, quote, config).out
    /\ op = "findTokens" =>
          \A k \in PriceTokenType : text = Token(k) => tokens = <<k>>

C5_Witness ==
    /\ op = "replaceTokens"
    /\ text = Token("CAPITAL_REQUIREMENT_RANGE")
    /\ quote = QuoteOf(Num(30000))
    /\ config = EmptyConfig
    /\ Len(matches) = 1
    /\ matches[1].group = "CAPITAL_REQUIREMENT_RANGE"
    /\ matches[1].length = 29
    /\ result = <<"~", "$", "2", "8", ",", "5", "0", "0", "EN_DASH",
                  "$", "3", "1", ",", "5", "0", "0">>

\* the 0-based positions of s at which a well-formed occurrence starts
OccurrencePositions(s) ==
    {pos \in 0..(Len(s) - 1) : \E k \in PriceTokenType : OccurrenceAt(s, pos, k)}

\* s put together again from the matches ms, from the i-th on: the characters
\* of s between the matches, and vals[kind] for each match
RECURSIVE Assembled(_, _, _, _, _)
Assembled(s, ms, i, from, vals) ==
    IF i > Len(ms) THEN SubSeq(s, from + 1, Len(s))
    ELSE SubSeq(s, from + 1, ms[i].index) \o vals[ms[i].group]
         \o Assembled(s, ms, i + 1, ms[i].index + ms[i].length, vals)

NestedText ==
    OpenBraces \o <<"B", "A", "R", "_">> \o Token("BAR_PRICE")
        \o <<"P", "R", "I", "C", "E">> \o CloseBraces

\* C6: replacement is single-pass and non-recursive: every match is a
\* well-formed occurrence of the input text at the match's index, the matches
\* follow one another without overlap (each starts at or after the end of the
\* one before), there are as many as the input has occurrences, and the result
\* is the input with exactly these stretches replaced.
C6_SinglePassNonRecursive ==
    op = "replaceTokens" =>
        /\ \A i \in 1..Len(matches) :
              /\ matches[i].group \in PriceTokenType
              /\ OccurrenceAt(text, matches[i].index, matches[i].group)
              /\ matches[i].length = Len(Token(matches[i].group))
        /\ \A i \in 1..(Len(matches) - 1) :
              matches[i].index + matches[i].length <= matches[i + 1].index
        /\ Len(matches) = Cardinality(OccurrencePositions(text))
        /\ result = Assembled(text, matches, 1, 0,
                        [k \in PriceTokenType |-> ResolveToken(k, quote, config).out])

C6_Witness ==
    /\ op = "replaceTokens"
    /\ text = NestedText
    /\ quote = QuoteOf(Num(30000))
    /\ config = EmptyConfig
    /\ Len(matches) = 1
    /\ matches[1].index = 6
    /\ result = OpenBraces \o <<"B", "A", "R", "_", "$", "3", "0", ",", "0", "0", "0",
                                "P", "R", "I", "C", "E">> \o CloseBraces

\* C7: for each of the eight kinds, a valid quote and a valid config,
\* resolveToken returns a non-empty string without any brace character.
C7_ResolvedHasNoBraces ==
    (op = "resolveToken" /\ kind \in PriceTokenType /\ ValidQuote(quote)
        /\ ValidConfig(config))
        => /\ Len(result) > 0
           /\ \A i \in 1..Len(result) : result[i] \notin {"{", "}"}

C7_Witness ==
    /\ op = "resolveToken"
    /\ kind = "HUNDRED_OZ_BAR_RANGE"
    /\ quote = QuoteOf(Num(1234567))
    /\ config = [premiumBandPercent |-> Num(150), roundingIncrement |-> Num(25)]
    /\ result = <<"$", "1", "2", "4", ",", "7", "0", "0", "EN_DASH",
                  "1", "2", "7", ",", "1", "0", "0">>

\* C8: with ask = 30000 and the default config, CAPITAL_REQUIREMENT resolves to
\* "~$30,000", CAPITAL_REQUIREMENT_RANGE to "~$28,500-$31,500" (an en-dash),
\* BAR_PRICE to "$30,000" and SPOT_PRICE to "~$30".
C8_ScenarioAsk30000 ==
    (op = "resolveToken" /\ quote = QuoteOf(Num(30000)) /\ config = EmptyConfig)
        => /\ kind = "CAPITAL_REQUIREMENT" =>
                 result = <<"~", "$", "3", "0", ",", "0", "0", "0">>
           /\ kind = "CAPITAL_REQUIREMENT_RANGE" =>
                 result = <<"~", "$", "2", "8", ",", "5", "0", "0", "EN_DASH",
                            "$", "3", "1", ",", "5", "0", "0">>
           /\ kind = "BAR_PRICE" => result = <<"$", "3", "0", ",", "0", "0", "0">>
           /\ kind = "SPOT_PRICE" => result = <<"~", "$", "3", "0">>

C8_Witness ==
    /\ op = "resolveToken"
    /\ quote = QuoteOf(Num(30000))
    /\ config = EmptyConfig
    /\ kind = "SPOT_PRICE"
    /\ result = <<"~", "$", "3", "0">>

RangeKinds == {"CAPITAL_REQUIREMENT_RANGE", "ONE_OZ_BAR_RANGE", "HUNDRED_OZ_BAR_RANGE"}

\* the value of a number that is an integer
IsInteger(x) == x.t = "fin" /\ x.d = 1
IntegerValue(x) == x.s * x.n

\* C9: for a positive ask and a valid config, the rounded low bound of each
\* range token is less than or equal to its rounded high bound.
C9_RangeLowAtMostHigh ==
    (op = "resolveToken" /\ kind \in RangeKinds /\ ValidQuote(quote)
        /\ ValidConfig(config))
        => /\ IsInteger(locals.lowBound)
           /\ IsInteger(locals.highBound)
           /\ IntegerValue(locals.lowBound) <= IntegerValue(locals.highBound)

C9_Witness ==
    /\ op = "resolveToken"
    /\ kind = "ONE_OZ_BAR_RANGE"
    /\ quote = QuoteOf(Num(30000))
    /\ locals.lowBound = Num(33)
    /\ locals.highBound = Num(40)

\* C10: rounding is monotonic: with the config fixed, the rounded ask of a
\* CAPITAL_REQUIREMENT or BAR_PRICE call (the number the call shows) is never
\* lower than the rounded ask of any valid ask that is not higher.
C10_RoundingMonotonic ==
    (op = "resolveToken" /\ kind \in {"CAPITAL_REQUIREMENT", "BAR_PRICE"}
        /\ ValidQuote(quote) /\ ValidConfig(config))
        => /\ IsInteger(locals.roundedAsk)
           /\ result = (IF kind = "BAR_PRICE" THEN <<>> ELSE Tilde)
                           \o CurrencyFormat(locals.roundedAsk)
           /\ LET increment == MergeConfig(config).roundingIncrement
              IN  \A a \in FiniteAsks :
                     (a.s = 1 /\ a.n > 0 /\ a.n * quote.ask.d <= quote.ask.n * a.d)
                         => LET lower == RoundToNearest(a, increment)
                            IN  /\ IsInteger(lower)
                                /\ IntegerValue(lower) <= IntegerValue(locals.roundedAsk)

C10_Witness ==
    /\ op = "resolveToken"
    /\ kind = "CAPITAL_REQUIREMENT"
    /\ quote = QuoteOf(Num(50))
    /\ config = EmptyConfig
    /\ locals.roundedAsk = Num(100)
    /\ RoundToNearest(Tick(99), Num(100)) = Num(0)

\* the kinds of the well-formed occurrences of s that start at position pos or
\* later, by the position of their first character
RECURSIVE OccurrenceKinds(_, _)
OccurrenceKinds(s, pos) ==
    IF pos >= Len(s) THEN <<>>
    ELSE IF \E k \in PriceTokenType : OccurrenceAt(s, pos, k)
    THEN <<CHOOSE k \in PriceTokenType : OccurrenceAt(s, pos, k)>>
             \o OccurrenceKinds(s, pos + 1)
    ELSE OccurrenceKinds(s, pos + 1)

\* C11: after any sequence of calls of replaceTokens, hasTokens and findTokens
\* the result of a call depends on its own arguments only, whatever lastIndex
\* the calls before it left on TOKEN_PATTERN: hasTokens tells whether the text
\* has an occurrence anywhere, replaceTokens substitutes every occurrence from
\* the start of the text on, findTokens lists every occurrence.
C11_CallsAreStateless ==
    /\ op = "hasTokens" => found = HasOccurrence(text)
    /\ op = "replaceTokens" =>
           /\ result = Substituted(text, 0,
                           [k \in PriceTokenType |-> ResolveToken(k, quote, config).out])
           /\ Len(matches) = Cardinality(OccurrencePositions(text))
    /\ op = "findTokens" => tokens = OccurrenceKinds(text, 0)

\* hasTokens called on a text that starts with a token while lastIndex stands
\* at the end of an earlier match
C11_Witness ==
    /\ op = "hasTokens"
    /\ entryIndex > 0
    /\ text = Token("BAR_PRICE")
    /\ found = TRUE
    /\ lastIndex = Len(text)

\* C12: findTokens returns the kinds of all well-formed occurrences of the
\* text in the order of their first characters, a kind that occurs twice
\* listed twice, and the empty sequence when the text has none; hasTokens
\* returns a boolean.
C12_FindTokensListsOccurrences ==
    /\ op = "findTokens" =>
           /\ tokens = OccurrenceKinds(text, 0)
           /\ Len(tokens) = Cardinality(OccurrencePositions(text))
           /\ ~HasOccurrence(text) => tokens = <<>>
    /\ op = "hasTokens" => found \in BOOLEAN

C12_Witness ==
    /\ op = "findTokens"
    /\ text = Token("BAR_PRICE") \o Token("LIQUIDITY_THRESHOLD") \o Token("BAR_PRICE")
    /\ tokens = <<"BAR_PRICE", "LIQUIDITY_THRESHOLD", "BAR_PRICE">>

Range(s) == {s[i] : i \in 1..Len(s)}

\* the characters a result is written in: those of the texts, of the fallback
\* phrase and of a formatted price
Characters ==
    UNION {Range(t) : t \in Texts} \cup Range(FallbackPhrase) \cup Range(DigitChars)
        \cup {"$", ",", "~", "+", "-", "EN_DASH", "INFINITY", "N", "a"}

IsString(r) == \A i \in 1..Len(r) : r[i] \in Characters

\* C13: for every text, every quote (null, non-positive or valid) and every
\* config, one with a zero or negative roundingIncrement or premiumBandPercent
\* included, replaceTokens and resolveToken return a string; resolveToken's
\* is not empty.
C13_AlwaysReturnsString ==
    /\ op = "resolveToken" => (IsString(result) /\ result # <<>>)
    /\ op = "replaceTokens" => IsString(result)

\* a valid quote with roundingIncrement 0: the division gives Infinity, the
\* product NaN, and the formatter writes it out
C13_Witness ==
    /\ op = "resolveToken"
    /\ kind = "CAPITAL_REQUIREMENT"
    /\ ValidQuote(quote)
    /\ config.roundingIncrement = Num(0)
    /\ result = <<"~", "$", "N", "a", "N">>

\* C14: with a valid quote, resolveToken given a kind that is none of the
\* eight returns the fallback phrase; replaceTokens never gets there, because
\* every identifier the pattern captures is one of the eight and has a case of
\* its own, whose value is a price and not the phrase.
C14_DefaultBranchOnlyForUnknownKind ==
    /\ (op = "resolveToken" /\ kind \notin PriceTokenType /\ ValidQuote(quote))
           => result = FallbackPhrase
    /\ Range(TokenAlternatives) = PriceTokenType
    /\ op = "replaceTokens" =>
           \A i \in 1..Len(matches) :
               /\ matches[i].group \in PriceTokenType
               /\ ValidQuote(quote) =>
                      ResolveToken(matches[i].group, quote, config).out # FallbackPhrase

C14_Witness ==
    /\ op = "resolveToken"
    /\ kind = UnknownTokenType
    /\ quote = QuoteOf(Num(30000))
    /\ result = FallbackPhrase

\* C15: a field missing from the config behaves as its default,
\* premiumBandPercent 5 and roundingIncrement 100; a field the config has
\* replaces that field only; the empty config is both defaults. Seen on what
\* resolveToken computes: the rounded ask and the bounds of the range.
C15_ConfigDefaults ==
    (op = "resolveToken" /\ ~NoPriceData(quote)) =>
        LET band == IF config.premiumBandPercent = Absent
                    THEN Num(5) ELSE config.premiumBandPercent
            incr == IF config.roundingIncrement = Absent
                    THEN Num(100) ELSE config.roundingIncrement
        IN  /\ locals.roundedAsk = RoundToNearest(quote.ask, incr)
            /\ locals.lowBound = RangeLow(kind, quote.ask, band, incr)
            /\ locals.highBound = RangeHigh(kind, quote.ask, band, incr)

\* the band supplied, the increment left to its default
C15_Witness ==
    /\ op = "resolveToken"
    /\ kind = "CAPITAL_REQUIREMENT_RANGE"
    /\ quote = QuoteOf(Num(30000))
    /\ config = [premiumBandPercent |-> Num(10), roundingIncrement |-> Absent]
    /\ locals.lowBound = Num(27000)
    /\ locals.highBound = Num(33000)
    /\ result = <<"~", "$", "2", "7", ",", "0", "0", "0", "EN_DASH",
                  "$", "3", "3", ",", "0", "0", "0">>

\* C16: for a valid quote and config, CAPITAL_REQUIREMENT_PLUS and
\* LIQUIDITY_THRESHOLD resolve to the same string, the CAPITAL_REQUIREMENT
\* result followed by "+", and BAR_PRICE resolves to the CAPITAL_REQUIREMENT
\* result without its leading "~".
C16_PlusAndBarFromCapitalRequirement ==
    (op = "resolveToken" /\ ValidQuote(quote) /\ ValidConfig(config)) =>
        LET capital == ResolveToken("CAPITAL_REQUIREMENT", quote, config).out
        IN  /\ kind \in {"CAPITAL_REQUIREMENT_PLUS", "LIQUIDITY_THRESHOLD"} =>
                   /\ result = capital \o <<"+">>
                   /\ ResolveToken("CAPITAL_REQUIREMENT_PLUS", quote, config).out
                          = ResolveToken("LIQUIDITY_THRESHOLD", quote, config).out
            /\ kind = "BAR_PRICE" =>
                   /\ Head(capital) = "~"
                   /\ result = Tail(capital)
                   /\ Head(result) = "$"

C16_Witness ==
    /\ op = "resolveToken"
    /\ kind = "BAR_PRICE"
    /\ quote = QuoteOf(Num(30000))
    /\ config = EmptyConfig
    /\ result = <<"$", "3", "0", ",", "0", "0", "0">>

\* how many times the character ch stands in s
Count(s, ch) == Cardinality({i \in 1..Len(s) : s[i] = ch})

\* C17: CAPITAL_REQUIREMENT_RANGE resolves to "~", the low bound as currency,
\* an en dash, the high bound as currency, with low = round(ask * (1 -
\* band/100), increment) and high = round(ask * (1 + band/100), increment);
\* both bounds carry the currency symbol and the only "~" is the first
\* character.
C17_CapitalRequirementRange ==
    (op = "resolveToken" /\ kind = "CAPITAL_REQUIREMENT_RANGE" /\ ~NoPriceData(quote)) =>
        LET band == MergeConfig(config).premiumBandPercent
            incr == MergeConfig(config).roundingIncrement
            low == RoundToNearest(
                       MulNum(quote.ask, SubNum(Num(1), DivNum(band, Num(100)))), incr)
            high == RoundToNearest(
                        MulNum(quote.ask, AddNum(Num(1), DivNum(band, Num(100)))), incr)
        IN  /\ result = <<"~">> \o CurrencyFormat(low) \o <<"EN_DASH">>
                            \o CurrencyFormat(high)
            /\ Count(result, "$") = 2
            /\ Count(result, "~") = 1
            /\ Head(result) = "~"

C17_Witness ==
    /\ op = "resolveToken"
    /\ kind = "CAPITAL_REQUIREMENT_RANGE"
    /\ quote = QuoteOf(Num(30000))
    /\ config = EmptyConfig
    /\ result = <<"~", "$", "2", "8", ",", "5", "0", "0", "EN_DASH",
                  "$", "3", "1", ",", "5", "0", "0">>

C19_ScenarioRetailRanges ==
    (op = "resolveToken" /\ quote = QuoteOf(Num(30000)) /\ config = EmptyConfig) =>
        /\ kind = "ONE_OZ_BAR_RANGE" => result = <<"3", "3", "EN_DASH", "4", "0">>
        /\ kind = "HUNDRED_OZ_BAR_RANGE" =>
               result = <<"3", ",", "1", "0", "0", "EN_DASH", "3", ",", "4", "0", "0">>

\* C20: roundToNearest(value, increment) with increment > 0 and value >= 0
\* returns a multiple of increment at most increment/2 away from value, the
\* higher one when value lies halfway between two multiples; value 50 with
\* increment 100 gives 100, value 49 gives 0, shown as "$0". Seen on the
\* rounded ask of a CAPITAL_REQUIREMENT or BAR_PRICE call.
C20_RoundHalfUp ==
    /\ (op = "resolveToken" /\ kind \in {"CAPITAL_REQUIREMENT", "BAR_PRICE"}
          /\ ValidQuote(quote) /\ ValidConfig(config)) =>
           LET increment == MergeConfig(config).roundingIncrement
               i == IntegerValue(increment)
               n == quote.ask.n
               d == quote.ask.d
               r == IntegerValue(locals.roundedAsk)
               distance == IF r * d >= n THEN r * d - n ELSE n - r * d
           IN  /\ IsInteger(increment)
               /\ locals.roundedAsk = RoundToNearest(quote.ask, increment)
               /\ IsInteger(locals.roundedAsk)
               /\ r >= 0
               /\ r % i = 0
               /\ 2 * distance <= i * d
               /\ 2 * distance = i * d => r * d > n
               /\ r = 0 => result = (IF kind = "BAR_PRICE" THEN <<>> ELSE Tilde)
                                        \o <<"$", "0">>
    /\ RoundToNearest(Num(50), Num(100)) = Num(100)
    /\ RoundToNearest(Num(49), Num(100)) = Num(0)
    /\ FormatPrice(RoundToNearest(Num(49), Num(100)), <<>>) = <<"$", "0">>

\* an ask of 12.5 with increment 25, halfway between 0 and 25
C20_Witness ==
    /\ op = "resolveToken"
    /\ kind = "BAR_PRICE"
    /\ quote = QuoteOf(Tick(25))
    /\ config.roundingIncrement = Num(25)
    /\ locals.roundedAsk = Num(25)
    /\ result = <<"$", "2", "5">>

\* C21: replaceTokens is idempotent: replacing the tokens of its own result
\* with the same quote and config changes nothing, because the result holds no
\* well-formed occurrence, neither inside a resolved value nor where a value
\* meets the text around it; likewise with an ask of NaN, whose value "$NaN"
\* has a capital letter as the identifiers have.
C21_ReplaceIdempotent ==
    op = "replaceTokens" =>
        /\ LET again == ReplaceTokens(result, quote, config)
           IN  again.out = result /\ again.matches = <<>>
        /\ ~HasOccurrence(result)
        /\ text \in ScenarioTexts =>
               LET once == ReplaceTokens(text, QuoteOf(NaN), config).out
               IN  ReplaceTokens(once, QuoteOf(NaN), config).out = once

\* a token nested in the letters of another: the value lands between "BAR_"
\* and "PRICE" and the braces around them stay
C21_Witness ==
    /\ op = "replaceTokens"
    /\ text = NestedText
    /\ quote = QuoteOf(Num(30000))
    /\ config = EmptyConfig
    /\ result = OpenBraces \o <<"B", "A", "R", "_">>
                    \o <<"$", "3", "0", ",", "0", "0", "0">>
                    \o <<"P", "R", "I", "C", "E">> \o CloseBraces

\* C22: the three scanner functions agree on every text: hasTokens(text) is
\* true exactly when findTokens(text) is not empty and exactly when
\* replaceTokens(text, quote, config) differs from the text; replaceTokens
\* makes as many replacements as findTokens lists kinds, the i-th of the i-th
\* kind listed.
C22_ScannersAgree ==
    /\ op = "hasTokens" => found = (FindTokens(text) # <<>>)
    /\ op = "findTokens" => (tokens # <<>>) = HasTokens(text, lastIndex).found
    /\ op = "replaceTokens" =>
           LET listed == FindTokens(text)
           IN  /\ (result # text) = HasTokens(text, lastIndex).found
               /\ (result # text) = (listed # <<>>)
               /\ Len(matches) = Len(listed)
               /\ \A i \in 1..Len(matches) : matches[i].group = listed[i]

\* three replacements, of the three kinds findTokens lists, in its order
C22_Witness ==
    /\ op = "replaceTokens"
    /\ text = Token("BAR_PRICE") \o Token("LIQUIDITY_THRESHOLD") \o Token("BAR_PRICE")
    /\ quote = QuoteOf(Num(30000))
    /\ Len(matches) = 3
    /\ FindTokens(text) = <<"BAR_PRICE", "LIQUIDITY_THRESHOLD", "BAR_PRICE">>
    /\ result # text
    /\ HasTokens(text, lastIndex).found

\* c with premiumBandPercent left out
WithoutBand(c) == [c EXCEPT !.premiumBandPercent = Absent]

\* C23: for a fixed valid quote SPOT_PRICE, ONE_OZ_BAR_RANGE and
\* HUNDRED_OZ_BAR_RANGE resolve to the same string under every config, and
\* CAPITAL_REQUIREMENT, CAPITAL_REQUIREMENT_PLUS, LIQUIDITY_THRESHOLD and
\* BAR_PRICE to the same string under every premiumBandPercent; only
\* CAPITAL_REQUIREMENT_RANGE changes with premiumBandPercent. Every config is
\* compared with one reference: the empty config, or the same config without
\* its premiumBandPercent.
C23_ConfigFrame ==
    (op = "resolveToken" /\ ValidQuote(quote)) =>
        /\ kind \in {"SPOT_PRICE", "ONE_OZ_BAR_RANGE", "HUNDRED_OZ_BAR_RANGE"} =>
               result = ResolveToken(kind, quote, EmptyConfig).out
        /\ kind \in {"CAPITAL_REQUIREMENT", "CAPITAL_REQUIREMENT_PLUS",
                     "LIQUIDITY_THRESHOLD", "BAR_PRICE"} =>
               result = ResolveToken(kind, quote, WithoutBand(config)).out
        /\ (kind = "CAPITAL_REQUIREMENT_RANGE" /\ quote = QuoteOf(Num(30000))
              /\ config.premiumBandPercent = Num(10)) =>
               result # ResolveToken(kind, quote, WithoutBand(config)).out

\* a retail range resolved under a config that sets both fields
C23_Witness ==
    /\ op = "resolveToken"
    /\ kind = "HUNDRED_OZ_BAR_RANGE"
    /\ quote = QuoteOf(Num(30000))
    /\ config = [premiumBandPercent |-> Num(150), roundingIncrement |-> Num(25)]
    /\ result = ResolveToken(kind, quote, EmptyConfig).out
    /\ result = <<"$", "3", ",", "0", "0", "0", "EN_DASH", "3", ",", "1", "0", "0">>

\* how many toggle clicks the sequence cs ends with
RECURSIVE TogglesAtEnd(_)
TogglesAtEnd(cs) ==
    IF cs = <<>> \/ cs[Len(cs)] # ToggleButton THEN 0
    ELSE 1 + TogglesAtEnd(SubSeq(cs, 1, Len(cs) - 1))

\* C24: the mobile menu starts closed, a click on the toggle button inverts
\* mobileMenuOpen, a click on a link of the mobile navigation closes it, and
\* the mobile navigation is rendered exactly when mobileMenuOpen is true; so
\* after any sequence of clicks the menu is closed right after a link click
\* and open exactly when the number of toggle clicks since the last link click,
\* or since the start, is odd.
C24_MobileMenu ==
    /\ clicks = <<>> => ~mobileMenuOpen
    /\ mobileNavRendered = mobileMenuOpen
    /\ (clicks # <<>> /\ clicks[Len(clicks)] \in NavLinks) => ~mobileMenuOpen
    /\ mobileMenuOpen = (TogglesAtEnd(clicks) % 2 = 1)

\* opened, closed by a link, then toggled three times: open again
C24_Witness ==
    /\ clicks = <<ToggleButton, "/about", ToggleButton, ToggleButton, ToggleButton>>
    /\ mobileMenuOpen
    /\ mobileNavRendered

====
